---- MODULE Spec2Model ----
(***************************************************************************)
(* Model of the webapiclient package (hidori/go-webapiclient).             *)
(*                                                                         *)
(* Two revisions of the client are modelled side by side, selected by the  *)
(* variable "variant":                                                     *)
(*   "ClientImpl"  src/client.go, lines 1-133   (Request.Body is []byte,   *)
(*                 the request is bound to context.Background())           *)
(*   "client"      src/unnamed/part_000, lines 263-415 (Request.Body is    *)
(*                 an io.Reader, the request is bound to the caller's ctx, *)
(*                 header keys go through http.CanonicalHeaderKey)         *)
(* The superseded path-join revision (src/client.go, lines 134-252) is not *)
(* part of the behaviour; its address joining and its case-sensitive       *)
(* prefix test appear only as the variations JoinedAddress and             *)
(* containsStringPrefix of the operators that replaced them.               *)
(*                                                                         *)
(* Text (addresses, header names, content types) is modelled by TLA+       *)
(* strings, handled character by character with Len, SubSeq and \o.        *)
(***************************************************************************)
EXTENDS Integers, Sequences, FiniteSets, TLC

----------------------------------------------------------------------------
(* Bounds of the model *)

\* longest request body drawn for Request.Body
MaxBodyLen == 1

\* longest header name drawn for Request.Headers
MaxNameLen == 2

\* most values drawn for one key of Request.Headers
MaxValues == 2

\* longest text drawn for Request.Path
MaxPathLen == 3

\* most entries drawn for Request.ExpectedContentTypes
MaxExpectedTypes == 2

----------------------------------------------------------------------------
(* strings *)

Char(s, i) == SubSeq(s, i, i)

LowerLetters == {"a", "b", "c", "d", "e", "f", "g", "h", "i", "j", "k", "l", "m",
                 "n", "o", "p", "q", "r", "s", "t", "u", "v", "w", "x", "y", "z"}

UpperLetters == {"A", "B", "C", "D", "E", "F", "G", "H", "I", "J", "K", "L", "M",
                 "N", "O", "P", "Q", "R", "S", "T", "U", "V", "W", "X", "Y", "Z"}

Alphabet == "abcdefghijklmnopqrstuvwxyz"

ALPHABET == "ABCDEFGHIJKLMNOPQRSTUVWXYZ"

\* position of the one-character string c in s, 0 when absent (strings.Index)
RECURSIVE IndexFrom(_, _, _)
IndexFrom(s, c, i) ==
    IF i > Len(s) THEN 0
    ELSE IF Char(s, i) = c THEN i
    ELSE IndexFrom(s, c, i + 1)

Index(s, c) == IndexFrom(s, c, 1)

\* last position of c in s, 0 when absent (strings.LastIndex)
RECURSIVE LastIndexFrom(_, _, _)
LastIndexFrom(s, c, i) ==
    IF i < 1 THEN 0
    ELSE IF Char(s, i) = c THEN i
    ELSE LastIndexFrom(s, c, i - 1)

LastIndex(s, c) == LastIndexFrom(s, c, Len(s))

Contains(s, c) == Index(s, c) # 0

\* unicode.ToLower / unicode.ToUpper on one ASCII character
LowerChar(c) ==
    IF c \in UpperLetters THEN Char(Alphabet, Index(ALPHABET, c)) ELSE c

UpperChar(c) ==
    IF c \in LowerLetters THEN Char(ALPHABET, Index(Alphabet, c)) ELSE c

RECURSIVE ToLower(_)
ToLower(s) ==
    IF s = "" THEN "" ELSE LowerChar(Char(s, 1)) \o ToLower(Tail(s))

HasPrefix(s, prefix) ==
    /\ Len(prefix) <= Len(s)
    /\ SubSeq(s, 1, Len(prefix)) = prefix

HasSuffix(s, suffix) ==
    /\ Len(suffix) <= Len(s)
    /\ SubSeq(s, Len(s) - Len(suffix) + 1, Len(s)) = suffix

\* the part of s after position i
From(s, i) == SubSeq(s, i + 1, Len(s))

\* strings.Cut(s, c): before, after, found
Cut(s, c) ==
    LET i == Index(s, c) IN
    IF i = 0 THEN [before |-> s, after |-> "", found |-> FALSE]
    ELSE [before |-> SubSeq(s, 1, i - 1), after |-> From(s, i), found |-> TRUE]

RECURSIVE Count(_, _)
Count(s, c) ==
    IF s = "" THEN 0
    ELSE (IF Char(s, 1) = c THEN 1 ELSE 0) + Count(Tail(s), c)

----------------------------------------------------------------------------
(* net/textproto: canonical header keys *)

\* validHeaderFieldByte: the token characters of RFC 7230
HeaderTokenChars == LowerLetters \cup UpperLetters \cup {"-"}

RECURSIVE AllIn(_, _)
AllIn(s, set) ==
    \/ s = ""
    \/ Char(s, 1) \in set /\ AllIn(Tail(s), set)

\* the second loop of canonicalMIMEHeaderKey: upper case at the start and
\* after each dash, lower case elsewhere
RECURSIVE Canonicalize(_, _)
Canonicalize(s, upper) ==
    IF s = "" THEN ""
    ELSE LET c == IF upper THEN UpperChar(Char(s, 1)) ELSE LowerChar(Char(s, 1))
         IN  c \o Canonicalize(Tail(s), c = "-")

\* no canonicalization: the key is used as the caller wrote it
CanonicalHeaderKeyVerbatim(key) == key

\* a key holding a space or any other non-token character is returned as is
CanonicalHeaderKey(key) ==
    IF AllIn(key, HeaderTokenChars) THEN Canonicalize(key, TRUE) ELSE key

\* http.Header.Set in place of Add: the value replaces what the key held
HeaderSet(header, key, value) ==
    LET k == CanonicalHeaderKey(key) IN
    [n \in DOMAIN header \cup {k} |-> IF n = k THEN <<value>> ELSE header[n]]

\* http.Header.Add: append under the canonical key
HeaderAdd(header, key, value) ==
    LET k == CanonicalHeaderKey(key) IN
    IF k \in DOMAIN header
    THEN [header EXCEPT ![k] = Append(@, value)]
    ELSE [n \in DOMAIN header \cup {k} |-> IF n = k THEN <<value>> ELSE header[n]]

RECURSIVE AddValues(_, _, _)
AddValues(header, key, values) ==
    IF values = <<>> THEN header
    ELSE AddValues(HeaderAdd(header, key, Head(values)), key, Tail(values))

\* http.Header.Get: first value under the canonical key, "" when absent
HeaderGet(header, key) ==
    LET k == CanonicalHeaderKey(key) IN
    IF k \in DOMAIN header /\ Len(header[k]) > 0 THEN header[k][1] ELSE ""

EmptyHeader == [n \in {} |-> <<>>]

----------------------------------------------------------------------------
(* net/url: parsing, reference resolution and printing.  Addresses are     *)
(* written over letters, ":", "/", "." and "?"; escapes, fragments and     *)
(* user information do not occur in them.                                  *)

Letters == LowerLetters \cup UpperLetters

EmptyURL == [Scheme |-> "", Opaque |-> "", Host |-> "", Path |-> "",
             OmitHost |-> FALSE, ForceQuery |-> FALSE, RawQuery |-> ""]

\* getScheme: [ok, scheme, rest]
RECURSIVE getSchemeFrom(_, _)
getSchemeFrom(rawURL, i) ==
    IF i > Len(rawURL) THEN [ok |-> TRUE, scheme |-> "", rest |-> rawURL]
    ELSE LET c == Char(rawURL, i) IN
         IF c \in Letters THEN getSchemeFrom(rawURL, i + 1)
         ELSE IF c = "." THEN
              IF i = 1 THEN [ok |-> TRUE, scheme |-> "", rest |-> rawURL]
              ELSE getSchemeFrom(rawURL, i + 1)
         ELSE IF c = ":" THEN
              IF i = 1 THEN [ok |-> FALSE, scheme |-> "", rest |-> ""]
              ELSE [ok |-> TRUE, scheme |-> SubSeq(rawURL, 1, i - 1),
                    rest |-> From(rawURL, i)]
         ELSE [ok |-> TRUE, scheme |-> "", rest |-> rawURL]

getScheme(rawURL) == getSchemeFrom(rawURL, 1)

\* parseHost / validOptionalPort: a port is ":" followed by digits only, and
\* no digit occurs here, so only the empty port is valid
validHost(host) ==
    LET i == LastIndex(host, ":") IN i = 0 \/ i = Len(host)

\* url.Parse: [ok, url]
urlParse(rawURL) ==
    LET sch == getScheme(rawURL) IN
    IF ~sch.ok THEN [ok |-> FALSE, url |-> EmptyURL]
    ELSE
    LET scheme == ToLower(sch.scheme)
        force  == HasSuffix(sch.rest, "?") /\ Count(sch.rest, "?") = 1
        cut    == Cut(sch.rest, "?")
        rest   == IF force THEN SubSeq(sch.rest, 1, Len(sch.rest) - 1)
                  ELSE cut.before
        query  == IF force THEN "" ELSE cut.after
        u0     == [EmptyURL EXCEPT !.Scheme = scheme, !.ForceQuery = force,
                                   !.RawQuery = query]
    IN
    IF ~HasPrefix(rest, "/") /\ scheme # ""
    THEN [ok |-> TRUE, url |-> [u0 EXCEPT !.Opaque = rest]]
    ELSE IF ~HasPrefix(rest, "/") /\ Contains(Cut(rest, "/").before, ":")
    THEN [ok |-> FALSE, url |-> EmptyURL]
    ELSE IF (scheme # "" \/ ~HasPrefix(rest, "///")) /\ HasPrefix(rest, "//")
    THEN LET a0        == From(rest, 2)
             i         == Index(a0, "/")
             authority == IF i = 0 THEN a0 ELSE SubSeq(a0, 1, i - 1)
             path      == IF i = 0 THEN "" ELSE From(a0, i - 1)
         IN  IF ~validHost(authority) THEN [ok |-> FALSE, url |-> EmptyURL]
             ELSE [ok |-> TRUE,
                   url |-> [u0 EXCEPT !.Host = authority, !.Path = path]]
    ELSE [ok |-> TRUE,
          url |-> [u0 EXCEPT !.Path = rest,
                             !.OmitHost = (scheme # "" /\ HasPrefix(rest, "/"))]]

\* the element loop of resolvePath; dst is the text written after the
\* leading "/"
RECURSIVE removeDotSegments(_, _, _)
removeDotSegments(remaining, dst, first) ==
    LET cut  == Cut(remaining, "/")
        elem == cut.before
        step ==
            IF elem = "." THEN [dst |-> dst, first |-> FALSE]
            ELSE IF elem = ".." THEN
                 LET index == LastIndex(dst, "/") IN
                 IF index = 0 THEN [dst |-> "", first |-> TRUE]
                 ELSE [dst |-> SubSeq(dst, 1, index - 1), first |-> first]
            ELSE [dst |-> (IF first THEN dst ELSE dst \o "/") \o elem,
                  first |-> FALSE]
    IN  IF cut.found THEN removeDotSegments(cut.after, step.dst, step.first)
        ELSE IF elem = "." \/ elem = ".." THEN step.dst \o "/"
        ELSE step.dst

resolvePath(base, ref) ==
    LET full == IF ref = "" THEN base
                ELSE IF Char(ref, 1) # "/"
                     THEN SubSeq(base, 1, LastIndex(base, "/")) \o ref
                ELSE ref
    IN  IF full = "" THEN ""
        ELSE LET r == "/" \o removeDotSegments(full, "", TRUE) IN
             IF Len(r) > 1 /\ Char(r, 2) = "/" THEN Tail(r) ELSE r

\* (*URL).ResolveReference
ResolveReference(u, ref) ==
    LET url == IF ref.Scheme = "" THEN [ref EXCEPT !.Scheme = u.Scheme] ELSE ref
    IN
    IF ref.Scheme # "" \/ ref.Host # ""
    THEN [url EXCEPT !.Path = resolvePath(ref.Path, "")]
    ELSE IF ref.Opaque # ""
    THEN [url EXCEPT !.Host = "", !.Path = ""]
    ELSE
    LET url2 == IF ref.Path = "" /\ ~ref.ForceQuery /\ ref.RawQuery = ""
                THEN [url EXCEPT !.RawQuery = u.RawQuery] ELSE url
    IN
    IF ref.Path = "" /\ u.Opaque # ""
    THEN [url2 EXCEPT !.Opaque = u.Opaque, !.Host = "", !.Path = ""]
    ELSE [url2 EXCEPT !.Host = u.Host, !.Path = resolvePath(u.Path, ref.Path)]

\* (*URL).String
URLString(u) ==
    LET scheme == IF u.Scheme # "" THEN u.Scheme \o ":" ELSE ""
        hostPart ==
            IF u.Scheme # "" \/ u.Host # ""
            THEN IF u.OmitHost /\ u.Host = "" THEN ""
                 ELSE (IF u.Host # "" \/ u.Path # "" THEN "//" ELSE "") \o u.Host
            ELSE ""
        slash == IF u.Path # "" /\ Char(u.Path, 1) # "/" /\ u.Host # ""
                 THEN "/" ELSE ""
        dot   == IF scheme \o hostPart \o slash = ""
                    /\ Contains(Cut(u.Path, "/").before, ":")
                 THEN "./" ELSE ""
        query == IF u.ForceQuery \/ u.RawQuery # "" THEN "?" \o u.RawQuery ELSE ""
    IN  IF u.Opaque # "" THEN scheme \o u.Opaque \o query
        ELSE scheme \o hostPart \o slash \o dot \o u.Path \o query

\* (*URL).Parse: parse the reference, then resolve it against u
resolveParsed(u, r) ==
    IF ~r.ok THEN r ELSE [ok |-> TRUE, url |-> ResolveReference(u, r.url)]

URLParseRef(u, ref) == resolveParsed(u, urlParse(ref))

\* removeEmptyPort, applied by http.NewRequestWithContext to the host
removeEmptyPort(host) ==
    IF HasSuffix(host, ":") THEN SubSeq(host, 1, Len(host) - 1) ELSE host

----------------------------------------------------------------------------
(* errors (github.com/pkg/errors) *)

\* An error value: msg is "with stack" for a cause wrapped by
\* errors.WithStack and the format for an error made by errors.Errorf; code
\* and text are the argument of the format, or the cause; stack is the
\* statement the stack trace recorded by WithStack or Errorf starts at.
NoError == [msg |-> "", code |-> 0, text |-> "", stack |-> ""]

\* the cause returned as it is, not wrapped: no stack, and the kind of the
\* cause itself
WithStackOmitted(cause, site) ==
    [msg |-> cause, code |-> 0, text |-> "", stack |-> ""]

\* errors.WithStack(cause) called at the statement "site": the cause with
\* the stack trace of the call attached; the wrapper has one type and no
\* message of its own
WithStack(cause, site) ==
    [msg |-> "with stack", code |-> 0, text |-> cause, stack |-> site]

\* errors.Errorf("unexpected status code: %d", statusCode)
UnexpectedStatusCode(statusCode) ==
    [msg |-> "unexpected status code: %d", code |-> statusCode, text |-> "",
     stack |-> "validateResponse/status"]

\* errors.Errorf("unexpected content type: %s", contentType)
UnexpectedContentType(contentType) ==
    [msg |-> "unexpected content type: %s", code |-> 0, text |-> contentType,
     stack |-> "validateResponse/contentType"]

----------------------------------------------------------------------------
(* state *)

VARIABLES
    variant,       \* the revision of the package the client was built from
    do,            \* ClientImpl.do / client.do: the transport function
    baseURL,       \* ClientImpl.baseURL / client.baseURL
    pc,            \* per call: the position of Do
    request,       \* per call: the *Request of the caller (caller-owned object)
    supplied,      \* per call: the value of *request when Do was called
    edit,          \* per call: the edit argument of Do
    ctx,           \* per call: the ctx argument of Do
    httpRequest,   \* per call: the *http.Request built by buildHTTPRequest
    received,      \* per call: what the transport function was invoked with
    editCalls,     \* per call: number of invocations of the edit hook
    httpResponse,  \* per call: the *http.Response of the transport, its stream
    result,        \* per call: the *Response Do returns
    err            \* per call: the error Do returns

clientVars == <<variant, do, baseURL>>

vars == <<variant, do, baseURL, pc, request, supplied, edit, ctx, httpRequest,
          received, editCalls, httpResponse, result, err>>

CallIds == {"c1", "c2"}

NilBody == [present |-> FALSE, data |-> <<>>, off |-> 0]

NoRequest == [Method |-> "", Path |-> "", Headers |-> <<>>, Body |-> NilBody,
              ExpectedStatusCodes |-> <<>>, ExpectedContentTypes |-> <<>>]

NoHTTPRequest == [built |-> FALSE, Method |-> "", URL |-> EmptyURL,
                  Header |-> EmptyHeader, Body |-> "nil", Ctx |-> ""]

NoHTTPResponse == [present |-> FALSE, StatusCode |-> 0, Header |-> EmptyHeader,
                   Body |-> <<>>, failAt |-> -1, read |-> 0, closed |-> 0]

\* Response.Headers is a map of slices; "aliases" says which storage it has
\* in common with the Header of the *http.Response it was made from:
\*   "none"   a map and value slices of its own
\*   "values" a map of its own whose value slices are those of the response
\*   "map"    the very map of the response
NoResult == [present |-> FALSE, StatusCode |-> 0, Headers |-> EmptyHeader,
             aliases |-> "none", Body |-> <<>>]

----------------------------------------------------------------------------
(* buildHTTPRequest *)

\* net/http validMethod, after NewRequestWithContext replaced "" by "GET"
validMethod(method) == method # "" /\ AllIn(method, HeaderTokenChars)

\* the unread bytes of a request body
Unread(body) == SubSeq(body.data, body.off + 1, Len(body.data))

\* requestBody without the method test: the body is attached to GET too
requestBodyAnyMethod(v, req) ==
    IF req.Body.present
    THEN IF v = "ClientImpl" THEN "bytes" ELSE "caller"
    ELSE "nil"

\* requestBody attaching the body to POST only
requestBodyPostOnly(v, req) ==
    IF req.Method = "POST" /\ req.Body.present
    THEN IF v = "ClientImpl" THEN "bytes" ELSE "caller"
    ELSE "nil"

\* the io.Reader handed to http.NewRequestWithContext:
\*   "nil"     no body
\*   "bytes"   ClientImpl: bytes.NewReader(request.Body), a private reader
\*   "caller"  client: request.Body itself, the reader of the caller
requestBody(v, req) ==
    IF req.Method # "GET" /\ req.Body.present
    THEN IF v = "ClientImpl" THEN "bytes" ELSE "caller"
    ELSE "nil"

\* the header loop: the entries of request.Headers are visited in the order
\* "order" (Go ranges over a map in an unspecified order), the values of one
\* entry in their slice order
RECURSIVE addHeaders(_, _, _, _)
addHeaders(v, header, headers, order) ==
    IF order = <<>> THEN header
    ELSE LET entry == headers[Head(order)]
             key   == IF v = "client" THEN CanonicalHeaderKey(entry.key)
                      ELSE entry.key
         IN  addHeaders(v, AddValues(header, key, entry.values), headers,
                        Tail(order))

\* http.NewRequestWithContext, once the method is known and the address
\* is parsed (u): [ok, req, err]
newRequest(c, m, u, body) ==
    IF ~validMethod(m)
    THEN [ok |-> FALSE, req |-> NoHTTPRequest,
          err |-> "net/http: invalid method"]
    ELSE IF c = "nil"
    THEN [ok |-> FALSE, req |-> NoHTTPRequest, err |-> "net/http: nil Context"]
    ELSE IF ~u.ok
    THEN [ok |-> FALSE, req |-> NoHTTPRequest, err |-> "parse"]
    ELSE [ok |-> TRUE, err |-> "",
          req |-> [built |-> TRUE, Method |-> m,
                   URL |-> [u.url EXCEPT !.Host = removeEmptyPort(@)],
                   Header |-> EmptyHeader, Body |-> body, Ctx |-> c]]

\* http.NewRequestWithContext: the empty method stands for GET
NewRequestWithContext(c, method, urlStr, body) ==
    newRequest(c, IF method = "" THEN "GET" ELSE method, urlParse(urlStr), body)

\* requestURL.String() of a resolved address
printed(r) ==
    IF ~r.ok
    THEN [ok |-> FALSE, url |-> "", at |-> "buildHTTPRequest/baseURL.Parse"]
    ELSE [ok |-> TRUE, url |-> URLString(r.url), at |-> ""]

\* resolved with the error of url.Parse(c.baseURL) dropped: the path is
\* then resolved against the empty address
resolvedLenient(b, path) ==
    IF ~b.ok THEN printed(URLParseRef(EmptyURL, path))
    ELSE printed(URLParseRef(b.url, path))

\* baseURL.Parse(request.Path) on a parsed base
resolved(b, path) ==
    IF ~b.ok
    THEN [ok |-> FALSE, url |-> "", at |-> "buildHTTPRequest/url.Parse"]
    ELSE printed(URLParseRef(b.url, path))

\* path.Join(c.baseURL, request.Path) of the superseded revision
\* (src/client.go, line 187): the two texts joined by "/" with repeated
\* slashes collapsed, the "//" after the scheme among them
RECURSIVE collapseSlashes(_)
collapseSlashes(s) ==
    IF Len(s) < 2 THEN s
    ELSE IF Char(s, 1) = "/" /\ Char(s, 2) = "/" THEN collapseSlashes(Tail(s))
    ELSE Char(s, 1) \o collapseSlashes(Tail(s))

JoinedAddress(base, path) ==
    [ok |-> TRUE, url |-> collapseSlashes(base \o "/" \o path)]

\* the address of the outgoing request: url.Parse(c.baseURL), then
\* baseURL.Parse(request.Path), then requestURL.String()
RequestAddress(base, path) == resolved(urlParse(base), path)

\* the rest of buildHTTPRequest once the request object is made
withHeaders(v, made, req, order) ==
    IF ~made.ok
    THEN [ok |-> FALSE, req |-> NoHTTPRequest, err |-> WithStack(made.err,
                           "buildHTTPRequest/http.NewRequestWithContext")]
    ELSE [ok |-> TRUE, err |-> NoError,
          req |-> [made.req EXCEPT
                     !.Header = addHeaders(v, @, req.Headers, order)]]

\* the rest of buildHTTPRequest once the address is resolved
withAddress(v, addr, req, c, order) ==
    IF ~addr.ok
    THEN [ok |-> FALSE, req |-> NoHTTPRequest,
          err |-> WithStack("parse", addr.at)]
    ELSE withHeaders(
            v,
            NewRequestWithContext(IF v = "ClientImpl" THEN "background" ELSE c,
                                  req.Method, addr.url, requestBody(v, req)),
            req, order)

buildHTTPRequest(v, base, req, c, order) ==
    withAddress(v, RequestAddress(base, req.Path), req, c, order)

----------------------------------------------------------------------------
(* validateResponse, readResponse *)

\* slices.Contains
RECURSIVE SliceContains(_, _)
SliceContains(list, item) ==
    /\ list # <<>>
    /\ (Head(list) = item \/ SliceContains(Tail(list), item))

\* the predicate handed to slices.ContainsFunc
matchesPrefix(contentType, prefix) ==
    HasPrefix(ToLower(contentType), ToLower(prefix))

\* containsStringPrefix of the superseded revision (src/client.go, lines
\* 245-252): the prefix test without the lower-casing
RECURSIVE containsStringPrefix(_, _)
containsStringPrefix(list, s) ==
    /\ list # <<>>
    /\ (HasPrefix(s, Head(list)) \/ containsStringPrefix(Tail(list), s))

RECURSIVE containsPrefix(_, _)
containsPrefix(list, contentType) ==
    /\ list # <<>>
    /\ (matchesPrefix(contentType, Head(list))
        \/ containsPrefix(Tail(list), contentType))

\* validateResponse without the status test
validateResponseNoStatus(resp, req) ==
    LET contentType == HeaderGet(resp.Header, "Content-Type") IN
    IF Len(req.ExpectedContentTypes) > 0
       /\ ~containsPrefix(req.ExpectedContentTypes, contentType)
    THEN UnexpectedContentType(contentType)
    ELSE NoError

\* validateResponse without the len(...) > 0 guards: an empty allow-list
\* rejects everything
validateResponseStrict(resp, req) ==
    IF ~SliceContains(req.ExpectedStatusCodes, resp.StatusCode)
    THEN UnexpectedStatusCode(resp.StatusCode)
    ELSE LET contentType == HeaderGet(resp.Header, "Content-Type") IN
         IF ~containsPrefix(req.ExpectedContentTypes, contentType)
         THEN UnexpectedContentType(contentType)
         ELSE NoError

\* validateResponse applying the content-type test only to a response that
\* has a Content-Type value
validateResponseSkipAbsent(resp, req) ==
    IF Len(req.ExpectedStatusCodes) > 0
       /\ ~SliceContains(req.ExpectedStatusCodes, resp.StatusCode)
    THEN UnexpectedStatusCode(resp.StatusCode)
    ELSE LET contentType == HeaderGet(resp.Header, "Content-Type") IN
         IF contentType # "" /\ Len(req.ExpectedContentTypes) > 0
            /\ ~containsPrefix(req.ExpectedContentTypes, contentType)
         THEN UnexpectedContentType(contentType)
         ELSE NoError

\* validateResponse with the two tests in the other order
validateResponseContentTypeFirst(resp, req) ==
    LET contentType == HeaderGet(resp.Header, "Content-Type") IN
    IF Len(req.ExpectedContentTypes) > 0
       /\ ~containsPrefix(req.ExpectedContentTypes, contentType)
    THEN UnexpectedContentType(contentType)
    ELSE IF Len(req.ExpectedStatusCodes) > 0
            /\ ~SliceContains(req.ExpectedStatusCodes, resp.StatusCode)
    THEN UnexpectedStatusCode(resp.StatusCode)
    ELSE NoError

validateResponse(resp, req) ==
    IF Len(req.ExpectedStatusCodes) > 0
       /\ ~SliceContains(req.ExpectedStatusCodes, resp.StatusCode)
    THEN UnexpectedStatusCode(resp.StatusCode)
    ELSE LET contentType == HeaderGet(resp.Header, "Content-Type") IN
         IF Len(req.ExpectedContentTypes) > 0
            /\ ~containsPrefix(req.ExpectedContentTypes, contentType)
         THEN UnexpectedContentType(contentType)
         ELSE NoError

\* a single Read of at most one byte in place of io.ReadAll
ReadOnce(resp) ==
    IF resp.failAt = 0
    THEN [data |-> <<>>, failed |-> TRUE]
    ELSE [data |-> SubSeq(resp.Body, 1, IF Len(resp.Body) > 0 THEN 1 ELSE 0),
          failed |-> FALSE]

\* a copy of the map only (maps.Clone): the value slices are those of h
HeaderShallowClone(h) == [map |-> h, aliases |-> "values"]

\* http.Header.Clone: a new map that holds, under every key of h, a new
\* slice with the values of h in their order
HeaderClone(h) ==
    [map |-> [n \in DOMAIN h |-> [i \in 1..Len(h[n]) |-> h[n][i]]],
     aliases |-> "none"]

\* io.ReadAll on the response stream: the bytes delivered before the stream
\* ends or fails, and whether it failed
ReadAll(resp) ==
    IF resp.failAt >= 0 /\ resp.failAt <= Len(resp.Body)
    THEN [data |-> SubSeq(resp.Body, 1, resp.failAt), failed |-> TRUE]
    ELSE [data |-> resp.Body, failed |-> FALSE]

\* readResponse returning what was read before the failure along with the
\* error
readResponsePartial(resp) ==
    IF ReadAll(resp).failed
    THEN [result |-> [present |-> TRUE, StatusCode |-> resp.StatusCode,
                      Headers |-> HeaderClone(resp.Header).map,
                      aliases |-> HeaderClone(resp.Header).aliases,
                      Body |-> ReadAll(resp).data],
          err |-> WithStack("read failed", "readResponse/io.ReadAll")]
    ELSE [result |-> [present |-> TRUE, StatusCode |-> resp.StatusCode,
                      Headers |-> HeaderClone(resp.Header).map,
                      aliases |-> HeaderClone(resp.Header).aliases,
                      Body |-> ReadAll(resp).data],
          err |-> NoError]

\* readResponse: [result, err]
readResponse(resp) ==
    IF ReadAll(resp).failed
    THEN [result |-> NoResult,
          err |-> WithStack("read failed", "readResponse/io.ReadAll")]
    ELSE [result |-> [present |-> TRUE, StatusCode |-> resp.StatusCode,
                      Headers |-> HeaderClone(resp.Header).map,
                      aliases |-> HeaderClone(resp.Header).aliases,
                      Body |-> ReadAll(resp).data],
          err |-> NoError]

----------------------------------------------------------------------------
(* inputs *)

\* the byte sequences 1, 2, 1, ... of length at most n
ByteSeqs(n) ==
    {[i \in 1..k |-> IF i % 2 = 1 THEN 1 ELSE 2] : k \in 0..n}

\* Request.Body: nil, or a body (possibly empty) that nothing has read yet
Bodies ==
    {NilBody} \cup {[present |-> TRUE, data |-> d, off |-> 0] :
                      d \in ByteSeqs(MaxBodyLen)}

Methods == {"GET", "POST", "", "get", "P T"}

MixedCaseHeaders ==
    << [key |-> "content-type", values |-> <<"a">>],
       [key |-> "Content-Type", values |-> <<"b">>] >>

ContentTypeHeader(value) == [n \in {"Content-Type"} |-> <<value>>]

Requests ==
    [Method : Methods, Path : {"/test"}, Headers : {<<>>, MixedCaseHeaders},
     Body : Bodies,
     ExpectedStatusCodes : {<<>>, <<200>>, <<200, 201>>},
     ExpectedContentTypes : {<<>>, <<"application/json">>}]

\* behaviours of the edit hook: absent, leaves the request alone, sets a
\* header, fails
Edits == {"nil", "keep", "setHeader", "fail"}

Contexts == {"ctx", "nil"}

\* base addresses: a well-formed one, and two that url.Parse rejects
\* (no scheme before the colon; a port that is not a number)
BaseURLs == {"http://example.com", ":", "http://h:x"}

\* what the transport function may answer with; failAt = k makes the stream
\* fail after delivering k bytes, failAt = -1 lets it end normally
Responses ==
    {r \in [present : {TRUE}, StatusCode : {200, 500},
            Header : {EmptyHeader, ContentTypeHeader("application/json"),
                      ContentTypeHeader("Application/JSON; charset=utf-8"),
                      ContentTypeHeader("text/plain")},
            Body : {<<>>, <<7, 8>>}, failAt : {-1, 0, 1},
            read : {0}, closed : {0}] :
       r.failAt <= Len(r.Body)}

\* the orders in which a range over a map of n entries may visit them
Orders(n) == {o \in [1..n -> 1..n] : \A i, j \in 1..n : o[i] = o[j] => i = j}

----------------------------------------------------------------------------
(* NewClient and Do *)

NewClient(variants, bases) ==
    /\ variant \in variants
    /\ do = "doFunc"
    /\ baseURL \in bases
    /\ pc = [p \in CallIds |-> "idle"]
    /\ request = [p \in CallIds |-> NoRequest]
    /\ supplied = [p \in CallIds |-> NoRequest]
    /\ edit = [p \in CallIds |-> "nil"]
    /\ ctx = [p \in CallIds |-> "none"]
    /\ httpRequest = [p \in CallIds |-> NoHTTPRequest]
    /\ received = [p \in CallIds |-> <<>>]
    /\ editCalls = [p \in CallIds |-> 0]
    /\ httpResponse = [p \in CallIds |-> NoHTTPResponse]
    /\ result = [p \in CallIds |-> NoResult]
    /\ err = [p \in CallIds |-> NoError]

\* Do is entered: the per-call state of the previous call is gone
Enter(p, r, e, c) ==
    /\ request' = [request EXCEPT ![p] = r]
    /\ supplied' = [supplied EXCEPT ![p] = r]
    /\ edit' = [edit EXCEPT ![p] = e]
    /\ ctx' = [ctx EXCEPT ![p] = c]
    /\ pc' = [pc EXCEPT ![p] = "build"]
    /\ httpRequest' = [httpRequest EXCEPT ![p] = NoHTTPRequest]
    /\ received' = [received EXCEPT ![p] = <<>>]
    /\ editCalls' = [editCalls EXCEPT ![p] = 0]
    /\ httpResponse' = [httpResponse EXCEPT ![p] = NoHTTPResponse]
    /\ result' = [result EXCEPT ![p] = NoResult]
    /\ err' = [err EXCEPT ![p] = NoError]
    /\ UNCHANGED clientVars

\* the caller calls Do with a new request, an edit hook and, in revision
\* "client", a context
Call(p, requests, edits, contexts) ==
    /\ pc[p] = "idle"
    /\ \E r \in requests, e \in edits,
          c \in (IF variant = "ClientImpl" THEN {"none"} ELSE contexts) :
         Enter(p, r, e, c)

\* the caller calls Do again with the request object of its previous call
\* (a call with a new request after a previous one differs in nothing from
\* a first call)
CallAgain(p, edits, contexts) ==
    /\ pc[p] = "done"
    /\ \E e \in edits,
          c \in (IF variant = "ClientImpl" THEN {"none"} ELSE contexts) :
         Enter(p, request[p], e, c)

\* afterBuild without the return after a failed build: the error is noted
\* and Do goes on with the request it did not get
afterBuildNoReturn(p, b) ==
    /\ httpRequest' = [httpRequest EXCEPT ![p] = b.req]
    /\ pc' = [pc EXCEPT ![p] = IF edit[p] # "nil" THEN "edit" ELSE "do"]
    /\ err' = [err EXCEPT ![p] = b.err]

\* afterBuild handing the built request to the transport at once, the hook
\* never invoked
afterBuildSkipEdit(p, b) ==
    IF b.ok
    THEN /\ httpRequest' = [httpRequest EXCEPT ![p] = b.req]
         /\ pc' = [pc EXCEPT ![p] = "do"]
         /\ err' = err
    ELSE /\ err' = [err EXCEPT ![p] = b.err]
         /\ pc' = [pc EXCEPT ![p] = "done"]
         /\ httpRequest' = httpRequest

\* Do: httpRequest, err := c.buildHTTPRequest(...); if err != nil return
afterBuild(p, b) ==
    IF b.ok
    THEN /\ httpRequest' = [httpRequest EXCEPT ![p] = b.req]
         /\ pc' = [pc EXCEPT ![p] = IF edit[p] # "nil" THEN "edit" ELSE "do"]
         /\ err' = err
    ELSE /\ err' = [err EXCEPT ![p] = b.err]
         /\ pc' = [pc EXCEPT ![p] = "done"]
         /\ httpRequest' = httpRequest

Build(p) ==
    /\ pc[p] = "build"
    /\ \E order \in Orders(Len(request[p].Headers)) :
         afterBuild(p, buildHTTPRequest(variant, baseURL, request[p], ctx[p],
                                        order))
    /\ UNCHANGED <<clientVars, request, supplied, edit, ctx, received,
                   editCalls, httpResponse, result>>

\* Edit with the error of the hook dropped: the call goes on to the transport
EditUnchecked(p) ==
    /\ pc[p] = "edit"
    /\ editCalls' = [editCalls EXCEPT ![p] = @ + 1]
    /\ pc' = [pc EXCEPT ![p] = "do"]
    /\ UNCHANGED <<clientVars, request, supplied, ctx, edit, received,
                   httpResponse, result, err, httpRequest>>

\* Do: if edit != nil { if err := edit(httpRequest); err != nil return }
Edit(p) ==
    /\ pc[p] = "edit"
    /\ editCalls' = [editCalls EXCEPT ![p] = @ + 1]
    /\ IF edit[p] = "fail"
       THEN /\ err' = [err EXCEPT ![p] = WithStack("boom", "Do/edit")]
            /\ pc' = [pc EXCEPT ![p] = "done"]
            /\ httpRequest' = httpRequest
       ELSE /\ httpRequest' =
                 [httpRequest EXCEPT ![p].Header =
                    IF edit[p] = "setHeader"
                    THEN [n \in DOMAIN @ \cup {"X-Custom-Header"} |->
                            IF n = "X-Custom-Header" THEN <<"custom-value">>
                            ELSE @[n]]
                    ELSE @]
            /\ pc' = [pc EXCEPT ![p] = "do"]
            /\ err' = err
    /\ UNCHANGED <<clientVars, request, supplied, ctx, edit, received,
                   httpResponse, result>>

\* SentBody with the reader of the caller read from its start, whatever
\* was read from it before
SentBodyWhole(req, hreq) ==
    IF hreq.Body = "nil" THEN <<>> ELSE req.Body.data

\* the bytes the body of the built request holds for the transport to read
SentBody(req, hreq) ==
    IF hreq.Body = "bytes" THEN req.Body.data
    ELSE IF hreq.Body = "caller" THEN Unread(req.Body)
    ELSE <<>>

\* Transport with a retry: after a failure of the transport function Do
\* calls it again instead of returning
TransportRetry(p, responses) ==
    /\ pc[p] = "do"
    /\ received' = [received EXCEPT ![p] =
                      Append(@, [req |-> httpRequest[p],
                                 body |-> SentBody(request[p], httpRequest[p])])]
    /\ \E k \in 0..Len(SentBody(request[p], httpRequest[p])) :
          request' = [request EXCEPT ![p].Body.off =
                        IF httpRequest[p].Body = "caller" THEN @ + k ELSE @]
    /\ \/ /\ err' = [err EXCEPT ![p] = WithStack("boom", "Do/c.do")]
          /\ pc' = [pc EXCEPT ![p] = IF Len(received[p]) = 0 THEN "do"
                                     ELSE "done"]
          /\ httpResponse' = httpResponse
       \/ \E r \in responses :
            /\ httpResponse' = [httpResponse EXCEPT ![p] = r]
            /\ pc' = [pc EXCEPT ![p] = "validate"]
            /\ err' = err
    /\ UNCHANGED <<clientVars, supplied, edit, ctx, httpRequest, editCalls,
                   result>>

\* Transport without the return after a failure of the transport function:
\* the error is noted and Do goes on to validate
TransportNoReturn(p, responses) ==
    /\ pc[p] = "do"
    /\ received' = [received EXCEPT ![p] =
                      Append(@, [req |-> httpRequest[p],
                                 body |-> SentBody(request[p], httpRequest[p])])]
    /\ \E k \in 0..Len(SentBody(request[p], httpRequest[p])) :
          request' = [request EXCEPT ![p].Body.off =
                        IF httpRequest[p].Body = "caller" THEN @ + k ELSE @]
    /\ \/ /\ err' = [err EXCEPT ![p] = WithStack("boom", "Do/c.do")]
          /\ pc' = [pc EXCEPT ![p] = "validate"]
          /\ httpResponse' = httpResponse
       \/ \E r \in responses :
            /\ httpResponse' = [httpResponse EXCEPT ![p] = r]
            /\ pc' = [pc EXCEPT ![p] = "validate"]
            /\ err' = err
    /\ UNCHANGED <<clientVars, supplied, edit, ctx, httpRequest, editCalls,
                   result>>

\* Do: httpResponse, err := c.do(httpRequest); if err != nil return;
\* otherwise the close of the stream is deferred.  The transport function
\* is handed the request with its body; how much of the body it reads
\* before it answers is up to it (k bytes).  Reading the reader of the
\* caller moves that reader on; reading a private reader leaves
\* Request.Body as it was.
Transport(p, responses) ==
    /\ pc[p] = "do"
    /\ received' = [received EXCEPT ![p] =
                      Append(@, [req |-> httpRequest[p],
                                 body |-> SentBody(request[p], httpRequest[p])])]
    /\ \E k \in 0..Len(SentBody(request[p], httpRequest[p])) :
          request' = [request EXCEPT ![p].Body.off =
                        IF httpRequest[p].Body = "caller" THEN @ + k ELSE @]
    /\ \/ /\ err' = [err EXCEPT ![p] = WithStack("boom", "Do/c.do")]
          /\ pc' = [pc EXCEPT ![p] = "done"]
          /\ httpResponse' = httpResponse
       \/ \E r \in responses :
            /\ httpResponse' = [httpResponse EXCEPT ![p] = r]
            /\ pc' = [pc EXCEPT ![p] = "validate"]
            /\ err' = err
    /\ UNCHANGED <<clientVars, supplied, edit, ctx, httpRequest, editCalls,
                   result>>

\* the outcome of validation with the stream closed on the success path
\* only, not deferred: a failure returns at once
afterValidateLeaky(p, e) ==
    IF e = NoError
    THEN /\ pc' = [pc EXCEPT ![p] = "read"]
         /\ err' = err
    ELSE /\ pc' = [pc EXCEPT ![p] = "done"]
         /\ err' = [err EXCEPT ![p] = e]

\* afterValidate consulting the context first: when it is cancelled Do
\* gives up with an error of its own, the response not looked at
afterValidateUnlessCancelled(p, e) ==
    IF ctx[p] = "cancelled"
    THEN /\ pc' = [pc EXCEPT ![p] = "close"]
         /\ err' = [err EXCEPT ![p] = WithStack("context canceled", "Do/ctx")]
    ELSE IF e = NoError
    THEN /\ pc' = [pc EXCEPT ![p] = "read"]
         /\ err' = err
    ELSE /\ pc' = [pc EXCEPT ![p] = "close"]
         /\ err' = [err EXCEPT ![p] = e]

\* the outcome of validation with the stream read whatever the outcome:
\* the error of the validation is kept, the read stage is entered anyway
afterValidateReadAnyway(p, e) ==
    /\ pc' = [pc EXCEPT ![p] = "read"]
    /\ err' = [err EXCEPT ![p] = e]

\* Do: if err := c.validateResponse(httpResponse, request); err != nil return
afterValidate(p, e) ==
    IF e = NoError
    THEN /\ pc' = [pc EXCEPT ![p] = "read"]
         /\ err' = err
    ELSE /\ pc' = [pc EXCEPT ![p] = "close"]
         /\ err' = [err EXCEPT ![p] = e]

Validate(p) ==
    /\ pc[p] = "validate"
    /\ afterValidate(p, validateResponse(httpResponse[p], request[p]))
    /\ UNCHANGED <<clientVars, request, supplied, edit, ctx, httpRequest,
                   received, editCalls, httpResponse, result>>

\* afterRead with the result kept in a buffer of the client that all calls
\* share, instead of a value local to the call
afterReadShared(p, r) ==
    /\ result' = [q \in CallIds |-> r.result]
    /\ err' = [err EXCEPT ![p] = r.err]

\* Do returning what was read with the error of the read dropped
afterReadDropsError(p, r) ==
    /\ result' = [result EXCEPT ![p] = r.result]
    /\ err' = [err EXCEPT ![p] = NoError]

\* Do: return c.readResponse(httpResponse)
afterRead(p, r) ==
    /\ result' = [result EXCEPT ![p] = r.result]
    /\ err' = [err EXCEPT ![p] = r.err]

Read(p) ==
    /\ pc[p] = "read"
    /\ afterRead(p, readResponse(httpResponse[p]))
    /\ httpResponse' = [httpResponse EXCEPT ![p].read =
                          Len(ReadAll(httpResponse[p]).data)]
    /\ pc' = [pc EXCEPT ![p] = "close"]
    /\ UNCHANGED <<clientVars, request, supplied, edit, ctx, httpRequest,
                   received, editCalls>>

\* the deferred httpResponse.Body.Close(), run as Do returns
Close(p) ==
    /\ pc[p] = "close"
    /\ httpResponse' = [httpResponse EXCEPT ![p].closed = @ + 1]
    /\ pc' = [pc EXCEPT ![p] = "done"]
    /\ UNCHANGED <<clientVars, request, supplied, edit, ctx, httpRequest,
                   received, editCalls, result, err>>

\* changes a holder of a header map can make to it in place: add a key,
\* delete a key, write to the first element of every value slice
HeaderChanges == {"add", "delete", "set"}

Changed(h, change) ==
    CASE change = "add" ->
            [n \in DOMAIN h \cup {"X-Later"} |->
               IF n \in DOMAIN h THEN h[n] ELSE <<"later">>]
      [] change = "delete" -> [n \in DOMAIN h \ {"Content-Type"} |-> h[n]]
      [] OTHER ->
            [n \in DOMAIN h |->
               IF Len(h[n]) > 0 THEN [h[n] EXCEPT ![1] = "changed"] ELSE h[n]]

\* what a change made through one header map does to the other one, given
\* the storage the two have in common
Through(h, aliases, change) ==
    IF aliases = "map" THEN Changed(h, change)
    ELSE IF aliases = "values" /\ change = "set" THEN Changed(h, "set")
    ELSE h

\* after Do has returned a result, the transport (or whoever holds the
\* *http.Response) changes the Header of the response
ChangeResponseHeader(p, changes) ==
    /\ pc[p] = "done"
    /\ result[p].present
    /\ \E c \in changes :
         /\ httpResponse' = [httpResponse EXCEPT ![p].Header = Changed(@, c)]
         /\ result' = [result EXCEPT
                         ![p].Headers = Through(@, result[p].aliases, c)]
    /\ UNCHANGED <<clientVars, pc, request, supplied, edit, ctx, httpRequest,
                   received, editCalls, err>>

\* after Do has returned a result, the caller changes Response.Headers
ChangeResultHeader(p, changes) ==
    /\ pc[p] = "done"
    /\ result[p].present
    /\ \E c \in changes :
         /\ result' = [result EXCEPT ![p].Headers = Changed(@, c)]
         /\ httpResponse' = [httpResponse EXCEPT
                               ![p].Header = Through(@, result[p].aliases, c)]
    /\ UNCHANGED <<clientVars, pc, request, supplied, edit, ctx, httpRequest,
                   received, editCalls, err>>

\* The caller cancels the context it gave to Do, after the transport
\* function has returned a response.  Do holds no reference to the context
\* but the one inside the request it built; the stream of the response is
\* the transport's: one that is tied to the context of the request (as the
\* streams of http.Client.Do are) fails from then on, any other is not
\* affected.
Cancel(p) ==
    /\ pc[p] \in {"validate", "read", "close"}
    /\ ctx[p] = "ctx"
    /\ httpRequest[p].Ctx = "ctx"
    /\ ctx' = [ctx EXCEPT ![p] = "cancelled"]
    /\ \/ httpResponse' = httpResponse
       \/ /\ pc[p] \in {"validate", "read"}
          /\ httpResponse' = [httpResponse EXCEPT ![p].failAt = 0]
    /\ UNCHANGED <<clientVars, pc, request, supplied, edit, httpRequest,
                   received, editCalls, result, err>>

----------------------------------------------------------------------------
(* the client under one Do call at a time, all stages of Do *)

Init == NewClient({"ClientImpl", "client"}, BaseURLs)

Next ==
    \E p \in {"c1"} :
        \/ Call(p, Requests, Edits, Contexts)
        \/ CallAgain(p, Edits, Contexts)
        \/ Build(p)
        \/ Edit(p)
        \/ Transport(p, Responses)
        \/ Validate(p)
        \/ Read(p)
        \/ Close(p)

Spec == Init /\ [][Next]_vars

----------------------------------------------------------------------------
(* two Do calls on one client at the same time, their steps interleaved *)

ConcurrentRequests ==
    [Method : {"GET", "POST"}, Path : {"/test"}, Headers : {<<>>},
     Body : {NilBody, [present |-> TRUE, data |-> <<1>>, off |-> 0]},
     ExpectedStatusCodes : {<<200>>}, ExpectedContentTypes : {<<>>}]

ConcurrentResponses ==
    [present : {TRUE}, StatusCode : {200, 500}, Header : {EmptyHeader},
     Body : {<<7, 8>>}, failAt : {-1, 1}, read : {0}, closed : {0}]

InitConcurrent == NewClient({"ClientImpl", "client"}, {"http://example.com", ":"})

NextConcurrent ==
    \E p \in CallIds :
        \/ Call(p, ConcurrentRequests, {"nil", "setHeader", "fail"}, {"ctx"})
        \/ Build(p)
        \/ Edit(p)
        \/ Transport(p, ConcurrentResponses)
        \/ Validate(p)
        \/ Read(p)
        \/ Close(p)

SpecConcurrent == InitConcurrent /\ [][NextConcurrent]_vars

----------------------------------------------------------------------------
(* two Do calls on one client, over inputs that make every stage fail *)

\* a request that builds, one whose path does not parse, one whose method
\* is not a token
ErrorRequests ==
    [Method : {"POST", "P T"}, Path : {"/test", ":"}, Headers : {<<>>},
     Body : {NilBody}, ExpectedStatusCodes : {<<200>>},
     ExpectedContentTypes : {<<"application/json">>}]

ErrorResponses ==
    [present : {TRUE}, StatusCode : {200, 500},
     Header : {ContentTypeHeader("application/json"),
               ContentTypeHeader("text/plain")},
     Body : {<<7, 8>>}, failAt : {-1, 0}, read : {0}, closed : {0}]

InitErrors == NewClient({"ClientImpl", "client"}, {"http://example.com", ":"})

NextErrors ==
    \E p \in CallIds :
        \/ Call(p, ErrorRequests, {"nil", "fail"}, Contexts)
        \/ Build(p)
        \/ Edit(p)
        \/ Transport(p, ErrorResponses)
        \/ Validate(p)
        \/ Read(p)
        \/ Close(p)

SpecErrors == InitErrors /\ [][NextErrors]_vars

----------------------------------------------------------------------------
(* one Do call, and what is done to the headers after it has returned *)

SnapshotRequests ==
    [Method : {"GET"}, Path : {"/test"}, Headers : {<<>>},
     Body : {NilBody}, ExpectedStatusCodes : {<<>>},
     ExpectedContentTypes : {<<>>}]

SnapshotResponses ==
    [present : {TRUE}, StatusCode : {200, 500},
     Header : {EmptyHeader, ContentTypeHeader("application/json"),
               [n \in {"Content-Type", "Set-Cookie"} |->
                  IF n = "Set-Cookie" THEN <<"a=1", "b=2">>
                  ELSE <<"text/plain">>]},
     Body : {<<>>, <<7, 8>>}, failAt : {-1}, read : {0}, closed : {0}]

InitSnapshot == NewClient({"ClientImpl", "client"}, {"http://example.com"})

NextSnapshot ==
    \E p \in {"c1"} :
        \/ Call(p, SnapshotRequests, {"nil"}, {"ctx"})
        \/ Build(p)
        \/ Transport(p, SnapshotResponses)
        \/ Validate(p)
        \/ Read(p)
        \/ Close(p)
        \/ ChangeResponseHeader(p, HeaderChanges)
        \/ ChangeResultHeader(p, HeaderChanges)

SpecSnapshot == InitSnapshot /\ [][NextSnapshot]_vars

----------------------------------------------------------------------------
(* one Do call whose context is cancelled after the response has come *)

CancelRequests ==
    [Method : {"GET", "POST"}, Path : {"/test"}, Headers : {<<>>},
     Body : {NilBody}, ExpectedStatusCodes : {<<>>, <<200>>},
     ExpectedContentTypes : {<<>>, <<"application/json">>}]

\* responses whose stream, left to itself, ends without a failure
CancelResponses ==
    [present : {TRUE}, StatusCode : {200, 500},
     Header : {EmptyHeader, ContentTypeHeader("application/json")},
     Body : {<<>>, <<7, 8>>}, failAt : {-1}, read : {0}, closed : {0}]

InitCancel == NewClient({"ClientImpl", "client"}, {"http://example.com"})

NextCancel ==
    \E p \in {"c1"} :
        \/ Call(p, CancelRequests, {"nil"}, {"ctx"})
        \/ Build(p)
        \/ Transport(p, CancelResponses)
        \/ Cancel(p)
        \/ Validate(p)
        \/ Read(p)
        \/ Close(p)

SpecCancel == InitCancel /\ [][NextCancel]_vars

----------------------------------------------------------------------------
(* the header loop of buildHTTPRequest over many header maps *)

\* all texts over chars of length at most n
RECURSIVE Strings(_, _)
Strings(chars, n) ==
    IF n = 0 THEN {""}
    ELSE LET shorter == Strings(chars, n - 1) IN
         shorter \cup {s \o c : s \in shorter, c \in chars}

HeaderNames == Strings({"c", "C", "-", " "}, MaxNameLen) \ {""}

FirstValues == <<"a1", "a2", "a3", "a4">>

SecondValues == <<"b1", "b2", "b3", "b4">>

HeaderKeys == HeaderNames \cup {"content-type", "Content-Type"}

\* the keys drawn next to key k: those that differ from k in letter case
\* only, and one unrelated key
SecondKeys(k) ==
    {n \in HeaderKeys : n # k /\ ToLower(n) = ToLower(k)} \cup {"x-a"}

\* Request.Headers is a map: the entries are listed in the order in which
\* the caller wrote them, with distinct keys
HeaderMaps ==
    {<<>>}
    \cup {<<[key |-> k, values |-> SubSeq(FirstValues, 1, n)]>> :
            k \in HeaderKeys, n \in 0..MaxValues}
    \cup UNION {{<<[key |-> k, values |-> SubSeq(FirstValues, 1, n[1])],
                   [key |-> k2, values |-> SubSeq(SecondValues, 1, n[2])]>> :
                   k2 \in SecondKeys(k),
                   n \in (0..MaxValues) \X (0..MaxValues)} :
                k \in HeaderKeys}

HeaderRequests ==
    [Method : {"POST"}, Path : {"/test"}, Headers : HeaderMaps,
     Body : {NilBody}, ExpectedStatusCodes : {<<>>},
     ExpectedContentTypes : {<<>>}]

InitHeaders == NewClient({"ClientImpl", "client"}, {"http://example.com"})

NextHeaders ==
    \E p \in {"c1"} :
        \/ Call(p, HeaderRequests, {"nil"}, {"ctx"})
        \/ Build(p)

SpecHeaders == InitHeaders /\ [][NextHeaders]_vars

----------------------------------------------------------------------------
(* the address of the outgoing request over many bases and paths *)

AddressBases ==
    {"http://example.com", "http://example.com/", "http://example.com/a/b",
     "http://example.com/a/b/", "http://example.com/a?q", "HTTP://h:/a",
     "", "/a/b", "mailto:a", ":", "http://h:x"}

AddressPaths == Strings({"t", "/", ".", "?", ":"}, MaxPathLen) \cup {"/test"}

AddressRequests ==
    [Method : {"GET"}, Path : AddressPaths, Headers : {<<>>},
     Body : {NilBody}, ExpectedStatusCodes : {<<>>},
     ExpectedContentTypes : {<<>>}]

OKResponse == [present |-> TRUE, StatusCode |-> 200, Header |-> EmptyHeader,
               Body |-> <<>>, failAt |-> -1, read |-> 0, closed |-> 0]

InitAddress == NewClient({"ClientImpl", "client"}, AddressBases)

NextAddress ==
    \E p \in {"c1"} :
        \/ Call(p, AddressRequests, {"nil"}, {"ctx"})
        \/ Build(p)
        \/ Transport(p, {OKResponse})

SpecAddress == InitAddress /\ [][NextAddress]_vars

----------------------------------------------------------------------------
(* validateResponse over many allow-lists and content types *)

Prefixes == {"", "application/json", "Application/JSON", "text/",
             "application/jsonx"}

PrefixLists == UNION {[1..k -> Prefixes] : k \in 0..MaxExpectedTypes}

ContentTypes == {"application/json", "Application/JSON; charset=utf-8",
                 "APPLICATION/JSONX", "application/jso", "text/plain",
                 "Text/HTML", ""}

ValidateRequests ==
    [Method : {"GET"}, Path : {"/test"}, Headers : {<<>>},
     Body : {NilBody}, ExpectedStatusCodes : {<<>>, <<200>>},
     ExpectedContentTypes : PrefixLists]

ValidateResponses ==
    [present : {TRUE}, StatusCode : {200, 500},
     Header : {EmptyHeader} \cup {ContentTypeHeader(t) : t \in ContentTypes},
     Body : {<<7, 8>>}, failAt : {-1}, read : {0}, closed : {0}]

InitValidate == NewClient({"ClientImpl", "client"}, {"http://example.com"})

NextValidate ==
    \E p \in {"c1"} :
        \/ Call(p, ValidateRequests, {"nil"}, {"ctx"})
        \/ Build(p)
        \/ Transport(p, ValidateResponses)
        \/ Validate(p)
        \/ Read(p)
        \/ Close(p)

SpecValidate == InitValidate /\ [][NextValidate]_vars

----------------------------------------------------------------------------
(* properties of Do *)

Returned(p) == pc[p] = "done"

\* the members of a list
Members(list) == {list[i] : i \in 1..Len(list)}

\* hooks that leave the body of the request alone
BodyKept(p) == edit[p] \in {"nil", "keep", "setHeader"}

C2_EditFailureStopsCall ==
    \A p \in CallIds :
        /\ edit[p] = "fail" => received[p] = <<>>
        /\ (Returned(p) /\ edit[p] = "fail")
              => (err[p] # NoError /\ ~result[p].present)

\* a call whose hook was invoked and failed
C2_Witness ==
    \E p \in CallIds :
        /\ Returned(p)
        /\ edit[p] = "fail"
        /\ editCalls[p] = 1
        /\ err[p] = WithStack("boom", "Do/edit")
        /\ received[p] = <<>>

\* C3: with a non-empty ExpectedStatusCodes that does not hold the status
\* code of the response, Do fails with the unexpected-status error carrying
\* that status code, and returns no result.
C3_UnexpectedStatus ==
    \A p \in CallIds :
        (/\ Returned(p)
         /\ httpResponse[p].present
         /\ supplied[p].ExpectedStatusCodes # <<>>
         /\ httpResponse[p].StatusCode
               \notin Members(supplied[p].ExpectedStatusCodes))
        => /\ err[p].msg = "unexpected status code: %d"
           /\ err[p].code = httpResponse[p].StatusCode
           /\ ~result[p].present

\* status 500 against the allow-list <<200, 201>>
C3_Witness ==
    \E p \in CallIds :
        /\ Returned(p)
        /\ httpResponse[p].StatusCode = 500
        /\ supplied[p].ExpectedStatusCodes = <<200, 201>>
        /\ err[p].code = 500
        /\ ~result[p].present

\* C4: with both allow-lists empty Do succeeds for every status code and
\* every Content-Type of the response, provided the build, the hook, the
\* transport and the read of the stream succeeded.
C4_EmptyListsAcceptAll ==
    \A p \in CallIds :
        (/\ Returned(p)
         /\ httpResponse[p].present
         /\ supplied[p].ExpectedStatusCodes = <<>>
         /\ supplied[p].ExpectedContentTypes = <<>>
         /\ httpResponse[p].failAt = -1)
        => /\ err[p] = NoError
           /\ result[p].present
           /\ result[p].StatusCode = httpResponse[p].StatusCode

\* status 500 without a Content-Type header, accepted
C4_Witness ==
    \E p \in CallIds :
        /\ Returned(p)
        /\ supplied[p].ExpectedStatusCodes = <<>>
        /\ supplied[p].ExpectedContentTypes = <<>>
        /\ httpResponse[p].StatusCode = 500
        /\ DOMAIN httpResponse[p].Header = {}
        /\ result[p].present
        /\ err[p] = NoError

\* C6: a request whose Method is GET is built without a body, whatever
\* Request.Body holds: the hook is handed a request without body and, when
\* the hook leaves the body alone, so is the transport.
C6_GetHasNoBody ==
    \A p \in CallIds :
        supplied[p].Method = "GET"
        => /\ httpRequest[p].Body = "nil"
           /\ BodyKept(p)
                 => \A i \in 1..Len(received[p]) :
                       /\ received[p][i].req.Body = "nil"
                       /\ received[p][i].body = <<>>

\* a GET request with a non-empty Request.Body that reached the transport
C6_Witness ==
    \E p \in CallIds :
        /\ supplied[p].Method = "GET"
        /\ supplied[p].Body.present
        /\ Unread(supplied[p].Body) # <<>>
        /\ Len(received[p]) = 1
        /\ received[p][1].req.Method = "GET"
        /\ received[p][1].body = <<>>

\* C7: without a hook, a request whose Method is not GET and whose body is
\* not empty reaches the transport with a body equal to Request.Body, byte
\* for byte.
C7_BodySentUnchanged ==
    \A p \in CallIds :
        (/\ supplied[p].Method # "GET"
         /\ supplied[p].Body.present
         /\ Unread(supplied[p].Body) # <<>>
         /\ edit[p] = "nil")
        => \A i \in 1..Len(received[p]) :
              /\ Len(received[p][i].body) = Len(Unread(supplied[p].Body))
              /\ \A k \in 1..Len(received[p][i].body) :
                    received[p][i].body[k]
                       = supplied[p].Body.data[supplied[p].Body.off + k]

\* a request with the empty method and a body, received by the transport
C7_Witness ==
    \E p \in CallIds :
        /\ supplied[p].Method = ""
        /\ Unread(supplied[p].Body) # <<>>
        /\ edit[p] = "nil"
        /\ Len(received[p]) = 1
        /\ received[p][1].body = supplied[p].Body.data

----------------------------------------------------------------------------
(* properties of validateResponse *)

\* the same letter, in either case, or the same character
SameLetter(a, b) ==
    \/ a = b
    \/ a \in UpperLetters /\ b \in LowerLetters
          /\ Index(ALPHABET, a) = Index(Alphabet, b)
    \/ a \in LowerLetters /\ b \in UpperLetters
          /\ Index(Alphabet, a) = Index(ALPHABET, b)

IsPrefixIgnoringCase(prefix, s) ==
    /\ Len(prefix) <= Len(s)
    /\ \A i \in 1..Len(prefix) : SameLetter(Char(prefix, i), Char(s, i))

\* the Content-Type value of the response of call p
ActualContentType(p) ==
    IF "Content-Type" \in DOMAIN httpResponse[p].Header
    THEN httpResponse[p].Header["Content-Type"][1]
    ELSE ""

StatusAccepted(p) ==
    \/ supplied[p].ExpectedStatusCodes = <<>>
    \/ httpResponse[p].StatusCode \in Members(supplied[p].ExpectedStatusCodes)

\* C5: with a non-empty ExpectedContentTypes (and an accepted status code)
\* the call passes validation exactly when some entry is a prefix of the
\* Content-Type value of the response, letter case ignored; otherwise Do
\* fails with the unexpected-content-type error carrying that value.
C5_ContentTypePrefix ==
    \A p \in CallIds :
        (/\ Returned(p)
         /\ httpResponse[p].present
         /\ StatusAccepted(p)
         /\ supplied[p].ExpectedContentTypes # <<>>)
        => IF \E i \in 1..Len(supplied[p].ExpectedContentTypes) :
                 IsPrefixIgnoringCase(supplied[p].ExpectedContentTypes[i],
                                      ActualContentType(p))
           THEN /\ err[p].msg # "unexpected content type: %s"
                /\ httpResponse[p].failAt = -1 => result[p].present
           ELSE /\ err[p] = UnexpectedContentType(ActualContentType(p))
                /\ ~result[p].present

\* "application/json" accepting "Application/JSON; charset=utf-8"
C5_Witness ==
    \E p \in CallIds :
        /\ Returned(p)
        /\ supplied[p].ExpectedContentTypes = <<"application/json">>
        /\ ActualContentType(p) = "Application/JSON; charset=utf-8"
        /\ err[p] = NoError
        /\ result[p].present

----------------------------------------------------------------------------
(* properties of the header loop of buildHTTPRequest *)

\* names that differ in letter case at most
SameName(a, b) == ToLower(a) = ToLower(b)

IsToken(name) == AllIn(name, HeaderTokenChars)

\* upper case at the start and after each dash, lower case elsewhere
IsCanonical(name) ==
    \A i \in 1..Len(name) :
        IF i = 1 \/ Char(name, i - 1) = "-"
        THEN Char(name, i) \notin LowerLetters
        ELSE Char(name, i) \notin UpperLetters

\* the entries of the built header under which the name may have landed
EntriesFor(p, name) ==
    {k \in DOMAIN httpRequest[p].Header : SameName(k, name)}

\* every value of entry e is held by the built header under key k
Holds(p, k, e) ==
    \A j \in 1..Len(e.values) :
        /\ k \in DOMAIN httpRequest[p].Header
        /\ e.values[j] \in Members(httpRequest[p].Header[k])

\* C8 as stated: every value lands under the canonical form of its name, and
\* names that differ only in letter case share a single entry.
C8_AsStated ==
    \A p \in CallIds :
        httpRequest[p].built
        => \A i, j \in 1..Len(supplied[p].Headers) :
              LET e == supplied[p].Headers[i]
                  f == supplied[p].Headers[j]
              IN  /\ Holds(p, CanonicalHeaderKey(e.key), e)
                  /\ SameName(e.key, f.key)
                        => Cardinality(EntriesFor(p, e.key)) <= 1

\* C8, amended: every value lands under the canonical form of its name, a
\* name with a non-token character (a space) being kept as written; names
\* made of token characters that differ only in letter case share a single
\* entry, which holds the values of all of them and nothing else.
C8_CanonicalMerge ==
    \A p \in CallIds :
        httpRequest[p].built
        => \A i, j \in 1..Len(supplied[p].Headers) :
              LET e == supplied[p].Headers[i]
                  f == supplied[p].Headers[j]
              IN  /\ (IsToken(e.key) /\ e.values # <<>>)
                        => \E k \in EntriesFor(p, e.key) :
                              IsCanonical(k) /\ Holds(p, k, e)
                  /\ ~IsToken(e.key) => Holds(p, e.key, e)
                  /\ IsToken(e.key)
                        => Cardinality(EntriesFor(p, e.key)) <= 1
                  /\ (IsToken(e.key) /\ SameName(e.key, f.key) /\ i # j)
                        => \A k \in EntriesFor(p, e.key) :
                              Len(httpRequest[p].Header[k])
                                 = Len(e.values) + Len(f.values)

\* the keys "c-" and "C-", two values each, merged into the entry "C-"
C8_Witness ==
    \E p \in CallIds :
        /\ httpRequest[p].built
        /\ Len(supplied[p].Headers) = 2
        /\ supplied[p].Headers[1].key = "c-"
        /\ supplied[p].Headers[2].key = "C-"
        /\ DOMAIN httpRequest[p].Header = {"C-"}
        /\ Len(httpRequest[p].Header["C-"]) = 4

\* the request of call p supplies "content-type" and "Content-Type" as two
\* keys, each with a value
BothContentTypeKeys(p) ==
    /\ Len(supplied[p].Headers) = 2
    /\ {supplied[p].Headers[1].key, supplied[p].Headers[2].key}
          = {"content-type", "Content-Type"}
    /\ supplied[p].Headers[1].values # <<>>
    /\ supplied[p].Headers[2].values # <<>>

\* C9 as stated: the merged Content-Type entry carries the values of both
\* keys in the order in which the keys were supplied (hence in the same
\* order on every call with that request).
C9_AsStated ==
    \A p \in CallIds :
        (httpRequest[p].built /\ BothContentTypeKeys(p))
        => /\ DOMAIN httpRequest[p].Header = {"Content-Type"}
           /\ httpRequest[p].Header["Content-Type"]
                 = supplied[p].Headers[1].values \o supplied[p].Headers[2].values

\* C9, amended: the merged Content-Type entry is the only entry and carries
\* the values of both keys, the values of each key together and in their
\* own order; which key's values come first is not determined by the
\* request.
C9_MergedEitherOrder ==
    \A p \in CallIds :
        (httpRequest[p].built /\ BothContentTypeKeys(p))
        => /\ DOMAIN httpRequest[p].Header = {"Content-Type"}
           /\ httpRequest[p].Header["Content-Type"]
                 \in {supplied[p].Headers[1].values
                         \o supplied[p].Headers[2].values,
                      supplied[p].Headers[2].values
                         \o supplied[p].Headers[1].values}

\* a request built with the values of the key supplied second coming first
C9_Witness ==
    \E p \in CallIds :
        /\ httpRequest[p].built
        /\ BothContentTypeKeys(p)
        /\ supplied[p].Headers[1].key = "content-type"
        /\ httpRequest[p].Header["Content-Type"]
              = supplied[p].Headers[2].values \o supplied[p].Headers[1].values
        /\ Len(httpRequest[p].Header["Content-Type"]) = 4

----------------------------------------------------------------------------
(* properties of the address of the outgoing request *)

\* scheme and host of the bases that have both
Origin(base) ==
    CASE base = "http://example.com" -> "http://example.com"
      [] base = "http://example.com/" -> "http://example.com"
      [] base = "http://example.com/a/b" -> "http://example.com"
      [] base = "http://example.com/a/b/" -> "http://example.com"
      [] base = "http://example.com/a?q" -> "http://example.com"
      [] base = "HTTP://h:/a" -> "http://h"
      [] OTHER -> ""

\* a reference that is an absolute path: it starts with a single "/"
IsAbsolutePath(path) == HasPrefix(path, "/") /\ ~HasPrefix(path, "//")

\* C10: the address handed to the transport is Request.Path resolved as a
\* relative reference against the base address: "http://example.com" with
\* "/test" gives exactly "http://example.com/test"; an absolute path (here
\* one without dot segments) replaces the whole path of the base, query
\* included; a relative path replaces the last segment of the base's path.
C10_AddressResolved ==
    \A p \in CallIds :
        \A i \in 1..Len(received[p]) :
            LET address == URLString(received[p][i].req.URL)
                path == supplied[p].Path
            IN  /\ (baseURL = "http://example.com" /\ path = "/test")
                      => address = "http://example.com/test"
                /\ (Origin(baseURL) # "" /\ IsAbsolutePath(path)
                      /\ ~Contains(path, "."))
                      => address = Origin(baseURL) \o path
                /\ (baseURL = "http://example.com/a/b" /\ path = "t")
                      => address = "http://example.com/a/t"
                /\ (baseURL = "http://example.com/a/b/" /\ path = "../t")
                      => address = "http://example.com/a/t"

\* the absolute path "/t" replacing the path "/a/b" of the base
C10_Witness ==
    \E p \in CallIds :
        /\ baseURL = "http://example.com/a/b"
        /\ supplied[p].Path = "/t"
        /\ Len(received[p]) = 1
        /\ URLString(received[p][1].req.URL) = "http://example.com/t"

----------------------------------------------------------------------------
(* properties of the stages of Do *)

\* the request was built and Do is past the hook
PastEdit(p) == httpRequest[p].built /\ pc[p] # "edit"

\* C11: when a hook is supplied and the build succeeded, the hook is invoked
\* exactly once, and before the transport: while the hook has not run the
\* transport has received nothing, and what the transport receives is the
\* request as the hook left it, a header set by the hook included.
C11_EditOnceBeforeTransport ==
    \A p \in CallIds :
        /\ editCalls[p] <= 1
        /\ (edit[p] # "nil" /\ PastEdit(p)) => editCalls[p] = 1
        /\ editCalls[p] = 0 /\ edit[p] # "nil" => received[p] = <<>>
        /\ edit[p] # "nil"
              => \A i \in 1..Len(received[p]) :
                    /\ received[p][i].req = httpRequest[p]
                    /\ edit[p] = "setHeader"
                          => /\ "X-Custom-Header"
                                  \in DOMAIN received[p][i].req.Header
                             /\ received[p][i].req.Header["X-Custom-Header"]
                                  = <<"custom-value">>

\* a hook that set a header, and the transport that received it
C11_Witness ==
    \E p \in CallIds :
        /\ edit[p] = "setHeader"
        /\ editCalls[p] = 1
        /\ Len(received[p]) = 1
        /\ received[p][1].req.Header["X-Custom-Header"] = <<"custom-value">>

\* the response of the call passes both tests of validateResponse
ResponseValid(p) == validateResponse(httpResponse[p], supplied[p]) = NoError

\* C12: the stream of the response is read only after the status test and
\* the content-type test have both passed: the read stage is entered, and a
\* byte is taken from the stream, only for a valid response; a call whose
\* response fails either test returns with no byte read and the stream closed.
C12_ReadOnlyAfterValidation ==
    \A p \in CallIds :
        /\ pc[p] = "read" => ResponseValid(p)
        /\ httpResponse[p].read > 0 => ResponseValid(p)
        /\ result[p].present => ResponseValid(p)
        /\ (Returned(p) /\ httpResponse[p].present /\ ~ResponseValid(p))
              => /\ httpResponse[p].read = 0
                 /\ httpResponse[p].closed = 1

\* a response with a body that failed the content-type test: nothing was
\* read from its stream, which is closed
C12_Witness ==
    \E p \in CallIds :
        /\ Returned(p)
        /\ httpResponse[p].present
        /\ httpResponse[p].Body # <<>>
        /\ httpResponse[p].failAt = -1
        /\ err[p].msg = "unexpected content type: %s"
        /\ httpResponse[p].read = 0
        /\ httpResponse[p].closed = 1

\* the transport function was invoked and gave an error instead of a response
TransportFailed(p) == received[p] # <<>> /\ ~httpResponse[p].present

\* C13: the transport function is invoked at most once in a Do call; when it
\* fails, Do returns an error and no result, without a second invocation.
C13_TransportOnceNoRetry ==
    \A p \in CallIds :
        /\ Len(received[p]) <= 1
        /\ TransportFailed(p)
              => /\ Returned(p)
                 /\ err[p] # NoError
                 /\ ~result[p].present

\* a call that returned the error of its one transport invocation
C13_Witness ==
    \E p \in CallIds :
        /\ Returned(p)
        /\ TransportFailed(p)
        /\ Len(received[p]) = 1
        /\ err[p] = WithStack("boom", "Do/c.do")

\* C14: the result of a successful call has the status code of the response
\* of the transport, a body of the same length and the same bytes as the
\* whole stream of the response, and every header of the response with all
\* its values.
C14_ResultMirrorsResponse ==
    \A p \in CallIds :
        (Returned(p) /\ err[p] = NoError)
        => /\ result[p].present
           /\ result[p].StatusCode = httpResponse[p].StatusCode
           /\ Len(result[p].Body) = Len(httpResponse[p].Body)
           /\ \A k \in 1..Len(httpResponse[p].Body) :
                 result[p].Body[k] = httpResponse[p].Body[k]
           /\ \A n \in DOMAIN httpResponse[p].Header :
                 /\ n \in DOMAIN result[p].Headers
                 /\ result[p].Headers[n] = httpResponse[p].Header[n]

\* status 500 with a Content-Type header and a two-byte body, returned whole
C14_Witness ==
    \E p \in CallIds :
        /\ Returned(p)
        /\ err[p] = NoError
        /\ result[p].StatusCode = 500
        /\ result[p].Body = <<7, 8>>
        /\ httpResponse[p].read = 2
        /\ "Content-Type" \in DOMAIN result[p].Headers

\* the base addresses url.Parse rejects
MalformedBases == {b \in BaseURLs : ~urlParse(b).ok}

\* the base address of the client is one url.Parse rejects
MalformedBase == baseURL \in MalformedBases

\* C15: NewClient stores whatever base address it is given, a malformed one
\* included, and the client is usable as a receiver of Do; with a malformed
\* base every Do call, the first and each later one, returns the error of
\* the parse without a result, before the hook and the transport are reached.
C15_MalformedBaseFailsAtCall ==
    \A p \in CallIds :
        (MalformedBase /\ Returned(p))
        => /\ err[p] = WithStack("parse", "buildHTTPRequest/url.Parse")
           /\ ~result[p].present
           /\ editCalls[p] = 0
           /\ received[p] = <<>>

\* a client built with the base "http://h:x" whose Do call failed
C15_Witness ==
    \E p \in CallIds :
        /\ baseURL = "http://h:x"
        /\ MalformedBase
        /\ Returned(p)
        /\ err[p] = WithStack("parse", "buildHTTPRequest/url.Parse")

\* C16: the request the transport function receives is bound to the context
\* the caller supplied to Do, so that the transport observes a cancellation
\* or a deadline of that context.  (Revision "ClientImpl" has no context
\* parameter and binds every request to context.Background().)
C16_AsStated ==
    \A p \in CallIds :
        \A i \in 1..Len(received[p]) :
            received[p][i].req.Ctx = ctx[p]

----------------------------------------------------------------------------
(* properties of concurrent Do calls *)

\* the state of one call
CallState(p) ==
    <<pc[p], request[p], supplied[p], edit[p], ctx[p], httpRequest[p],
      received[p], editCalls[p], httpResponse[p], result[p], err[p]>>

\* what a call returns when it runs alone, from its own arguments and the
\* answer its own transport invocation gave
AloneAfterTransport(resp, req, v) ==
    IF ~resp.present
    THEN [result |-> NoResult, err |-> WithStack("boom", "Do/c.do")]
    ELSE IF v # NoError THEN [result |-> NoResult, err |-> v]
    ELSE readResponse(resp)

AloneAfterBuild(p, b) ==
    IF ~b.ok THEN [result |-> NoResult, err |-> b.err]
    ELSE IF edit[p] = "fail"
    THEN [result |-> NoResult, err |-> WithStack("boom", "Do/edit")]
    ELSE AloneAfterTransport(httpResponse[p], supplied[p],
                             validateResponse(httpResponse[p], supplied[p]))

Alone(p) ==
    AloneAfterBuild(p, buildHTTPRequest(variant, baseURL, supplied[p], ctx[p],
                                        <<>>))

\* every step is a step of one call and leaves the other calls as they were
OneCallSteps ==
    \E p \in CallIds :
        \A q \in CallIds \ {p} : CallState(q)' = CallState(q)

\* C17: Do calls running at the same time on one client do not interfere:
\* under every interleaving of their steps a call returns what it returns
\* when it runs alone, a step of one call changes nothing of another call,
\* and no step changes the base address or the transport function of the
\* client.
C17_ConcurrentCallsIndependent ==
    /\ [](\A p \in CallIds :
             Returned(p)
             => [result |-> result[p], err |-> err[p]] = Alone(p))
    /\ [][OneCallSteps]_vars
    /\ [][baseURL' = baseURL /\ do' = do]_vars

\* one call has returned a result while the other, entered with a request
\* of its own, is about to close the stream of a response it rejected
C17_Witness ==
    /\ pc["c1"] = "done"
    /\ result["c1"].present
    /\ result["c1"].Body = <<7, 8>>
    /\ pc["c2"] = "close"
    /\ err["c2"] = UnexpectedStatusCode(500)
    /\ supplied["c1"] # supplied["c2"]

----------------------------------------------------------------------------
(* properties of the request of the caller across Do calls *)

\* a request with the read position of its body left out
Fields(req) == [req EXCEPT !.Body.off = 0]

\* the call attaches Request.Body to the request it builds
BodyAttached(p) == supplied[p].Method # "GET" /\ supplied[p].Body.present

\* C18 as stated: after a Do call the request of the caller, its body
\* included, is as it was before the call, and every Do call with a request
\* that is not GET, the second with the same request as much as the first,
\* sends the whole body of the request.
C18_AsStated ==
    \A p \in CallIds :
        /\ Returned(p) => request[p] = supplied[p]
        /\ (BodyAttached(p) /\ BodyKept(p))
              => \A i \in 1..Len(received[p]) :
                    received[p][i].body = supplied[p].Body.data

\* C18, amended: Do assigns to no field of the request and replaces no byte
\* of its body.  With a body held as bytes (ClientImpl) the request is the
\* same after the call as before, and every call sends the whole body.  With
\* a body held as a reader (client) the transport is handed that reader:
\* only a transport invocation moves it on, it never moves back, and a call
\* sends the bytes that were unread when the call was made, which after an
\* earlier call that reached the transport may be fewer than the whole body.
C18_SpecKeptReaderConsumed ==
    \A p \in CallIds :
        /\ Fields(request[p]) = Fields(supplied[p])
        /\ request[p].Body.off >= supplied[p].Body.off
        /\ request[p].Body.off <= Len(request[p].Body.data)
        /\ request[p].Body.off # supplied[p].Body.off
              => (variant = "client" /\ received[p] # <<>>)
        /\ variant = "ClientImpl" => request[p] = supplied[p]
        /\ (BodyAttached(p) /\ BodyKept(p))
              => \A i \in 1..Len(received[p]) :
                    received[p][i].body
                       = IF variant = "ClientImpl" THEN supplied[p].Body.data
                         ELSE Unread(supplied[p].Body)

\* a second call with a request whose reader the first call left at its
\* end: the transport is handed an empty body
C18_Witness ==
    \E p \in CallIds :
        /\ variant = "client"
        /\ BodyAttached(p)
        /\ supplied[p].Body.data # <<>>
        /\ supplied[p].Body.off = Len(supplied[p].Body.data)
        /\ Len(received[p]) = 1
        /\ received[p][1].body = <<>>

----------------------------------------------------------------------------
(* properties of the errors of Do *)

\* the stage at which a call that has returned failed, read off what the
\* call went through and not off its error
Stage(p) ==
    IF ~RequestAddress(baseURL, supplied[p].Path).ok THEN "address"
    ELSE IF ~httpRequest[p].built THEN "construction"
    ELSE IF edit[p] = "fail" THEN "edit"
    ELSE IF ~httpResponse[p].present THEN "transport"
    ELSE IF ~StatusAccepted(p) THEN "status"
    ELSE IF ~ResponseValid(p) THEN "contentType"
    ELSE IF httpResponse[p].failAt >= 0 THEN "read"
    ELSE "none"

\* the kind of an error as a caller can test it: the type of the wrapper
\* for a wrapped cause, the message for an error made from a format
Kind(e) == e.msg

\* the statements whose stack trace an error of each stage starts at
Sites(stage) ==
    CASE stage = "address" ->
            {"buildHTTPRequest/url.Parse", "buildHTTPRequest/baseURL.Parse"}
      [] stage = "construction" ->
            {"buildHTTPRequest/http.NewRequestWithContext"}
      [] stage = "edit" -> {"Do/edit"}
      [] stage = "transport" -> {"Do/c.do"}
      [] stage = "read" -> {"readResponse/io.ReadAll"}
      [] stage = "status" -> {"validateResponse/status"}
      [] stage = "contentType" -> {"validateResponse/contentType"}
      [] OTHER -> {""}

WrappedStages == {"address", "construction", "edit", "transport", "read"}

ContentTypeRejected(p) ==
    /\ supplied[p].ExpectedContentTypes # <<>>
    /\ \A i \in 1..Len(supplied[p].ExpectedContentTypes) :
          ~IsPrefixIgnoringCase(supplied[p].ExpectedContentTypes[i],
                                ActualContentType(p))

\* C20: the status test comes before the content-type test: a response that
\* fails both, each against a non-empty list, makes Do fail with the
\* unexpected-status error carrying the status code, never with the
\* unexpected-content-type error.
C20_StatusBeforeContentType ==
    \A p \in CallIds :
        (/\ Returned(p)
         /\ httpResponse[p].present
         /\ ~StatusAccepted(p)
         /\ ContentTypeRejected(p))
        => /\ err[p].msg = "unexpected status code: %d"
           /\ err[p].code = httpResponse[p].StatusCode
           /\ err[p].msg # "unexpected content type: %s"
           /\ ~result[p].present

\* status 500 against <<200>> and a Content-Type no entry of the list
\* matches
C20_Witness ==
    \E p \in CallIds :
        /\ Returned(p)
        /\ httpResponse[p].StatusCode = 500
        /\ supplied[p].ExpectedStatusCodes = <<200>>
        /\ ContentTypeRejected(p)
        /\ ActualContentType(p) # ""
        /\ err[p].code = 500

----------------------------------------------------------------------------
(* properties of the order of the stages of Do *)

\* the moves of Do from one stage to the next
StageMoves ==
    {<<"idle", "build">>, <<"done", "build">>,
     <<"build", "edit">>, <<"build", "do">>, <<"build", "done">>,
     <<"edit", "do">>, <<"edit", "done">>,
     <<"do", "validate">>, <<"do", "done">>,
     <<"validate", "read">>, <<"validate", "close">>,
     <<"read", "close">>, <<"close", "done">>}

\* a step of call p follows the order of Do: it moves along StageMoves, to
\* the hook only when there is one and past it only when there is none, and
\* a step that sets the error of the call ends it, but for the close of a
\* stream that was opened
InOrder(p) ==
    pc'[p] # pc[p]
    => /\ <<pc[p], pc'[p]>> \in StageMoves
       /\ pc'[p] = "edit" => edit[p] # "nil"
       /\ (pc[p] = "build" /\ pc'[p] = "do") => edit[p] = "nil"
       /\ (err'[p] # NoError /\ pc'[p] # "build")
             => pc'[p] \in {"close", "done"}
       /\ pc'[p] = "close" => httpResponse[p].present

\* C21: within a Do call the stages run in the order build, hook (if there
\* is one), transport, status test, content-type test, read, return; each
\* runs at most once (the hook, the transport and the close are counted, and
\* a stage passed is not entered again before the next call); once a stage
\* has failed no later stage runs, and the content-type test reports only a
\* response whose status passed.
C21_StagesInOrder ==
    /\ [][\A p \in CallIds : InOrder(p)]_vars
    /\ [](\A p \in CallIds :
             /\ editCalls[p] <= 1
             /\ Len(received[p]) <= 1
             /\ httpResponse[p].closed <= 1
             /\ err[p] # NoError => pc[p] \in {"close", "done"}
             /\ pc[p] \in {"build", "edit"} => received[p] = <<>>
             /\ pc[p] \in {"build", "edit", "do"} => ~httpResponse[p].present
             /\ pc[p] \in {"build", "edit", "do", "validate"}
                   => httpResponse[p].read = 0 /\ ~result[p].present
             /\ err[p].msg = "unexpected content type: %s"
                   => StatusAccepted(p))

\* a call that went through every stage: hook, transport, both tests, read
\* and close
C21_Witness ==
    \E p \in CallIds :
        /\ Returned(p)
        /\ editCalls[p] = 1
        /\ Len(received[p]) = 1
        /\ supplied[p].ExpectedStatusCodes # <<>>
        /\ supplied[p].ExpectedContentTypes # <<>>
        /\ httpResponse[p].read = 2
        /\ httpResponse[p].closed = 1
        /\ result[p].present

----------------------------------------------------------------------------
(* properties of the failures of Do *)

\* the request of the call cannot be built: the base address or the path
\* resolved against it does not parse, the method holds a space, or (in
\* revision "client") the context is nil
Unbuildable(p) ==
    \/ MalformedBase
    \/ supplied[p].Path = ":"
    \/ Contains(supplied[p].Method, " ")
    \/ variant = "client" /\ ctx[p] = "nil"

\* C22: when the request cannot be built Do returns the error of the build
\* at once: the hook and the transport function are not invoked, no
\* response is obtained and no stream is closed; a request that can be
\* built is built.
C22_BuildFailureReturnsAtOnce ==
    \A p \in CallIds :
        pc[p] \notin {"idle", "build"}
        => IF Unbuildable(p)
           THEN /\ Returned(p)
                /\ Kind(err[p]) = "with stack"
                /\ err[p].stack \in Sites("address") \cup Sites("construction")
                /\ ~result[p].present
                /\ ~httpRequest[p].built
                /\ editCalls[p] = 0
                /\ received[p] = <<>>
                /\ ~httpResponse[p].present
                /\ httpResponse[p].closed = 0
           ELSE httpRequest[p].built

\* a call with a hook and the method "P T", returned with the error of
\* http.NewRequestWithContext
C22_Witness ==
    \E p \in CallIds :
        /\ Returned(p)
        /\ supplied[p].Method = "P T"
        /\ supplied[p].Path = "/test"
        /\ ~MalformedBase
        /\ edit[p] = "fail"
        /\ err[p].text = "net/http: invalid method"
        /\ editCalls[p] = 0
        /\ received[p] = <<>>

\* C23: when the stream of a response that passed validation fails while it
\* is read, Do returns the error of the read and no result: none of the
\* bytes read before the failure, nor the status code, nor the headers of
\* the response are returned; the stream is closed all the same.
C23_ReadFailureNoResult ==
    \A p \in CallIds :
        (/\ Returned(p)
         /\ httpResponse[p].present
         /\ ResponseValid(p)
         /\ httpResponse[p].failAt >= 0)
        => /\ err[p] = WithStack("read failed", "readResponse/io.ReadAll")
           /\ ~result[p].present
           /\ result[p].Body = <<>>
           /\ result[p].StatusCode = 0
           /\ DOMAIN result[p].Headers = {}
           /\ httpResponse[p].closed = 1

\* a valid response with headers whose stream failed after one byte
C23_Witness ==
    \E p \in CallIds :
        /\ Returned(p)
        /\ httpResponse[p].StatusCode = 200
        /\ DOMAIN httpResponse[p].Header # {}
        /\ httpResponse[p].failAt = 1
        /\ httpResponse[p].read = 1
        /\ err[p].text = "read failed"
        /\ result[p] = NoResult

\* the response of the call has no Content-Type header
NoContentType(p) == "Content-Type" \notin DOMAIN httpResponse[p].Header

\* C24: a response without a Content-Type header is tested as one whose
\* content type is the empty text: against a non-empty ExpectedContentTypes
\* with no empty entry it is rejected with the unexpected-content-type error
\* carrying the empty text; an empty entry, a prefix of every text, accepts
\* it.
C24_AbsentContentTypeIsEmpty ==
    \A p \in CallIds :
        (/\ Returned(p)
         /\ httpResponse[p].present
         /\ StatusAccepted(p)
         /\ NoContentType(p)
         /\ supplied[p].ExpectedContentTypes # <<>>)
        => IF "" \in Members(supplied[p].ExpectedContentTypes)
           THEN err[p] = NoError /\ result[p].present
           ELSE /\ err[p] = UnexpectedContentType("")
                /\ ~result[p].present

\* a response without headers rejected by the list <<"text/">>
C24_Witness ==
    \E p \in CallIds :
        /\ Returned(p)
        /\ httpResponse[p].present
        /\ NoContentType(p)
        /\ supplied[p].ExpectedContentTypes = <<"text/">>
        /\ err[p].msg = "unexpected content type: %s"
        /\ err[p].text = ""

----------------------------------------------------------------------------
(* properties of the result after Do has returned *)

\* C25: the headers of the result are a snapshot: once Do has returned, a
\* step that changes the Header of the response of the transport (a key
\* added or deleted, a value overwritten in its list) leaves the headers of
\* the result as they were, and a step that changes the headers of the
\* result leaves the Header of the response as it was.
C25_HeadersAreSnapshot ==
    [][\A p \in CallIds :
          (pc[p] = "done" /\ pc'[p] = "done" /\ result[p].present)
          => /\ httpResponse'[p].Header # httpResponse[p].Header
                   => result'[p].Headers = result[p].Headers
             /\ result'[p].Headers # result[p].Headers
                   => httpResponse'[p].Header = httpResponse[p].Header]_vars

\* after the call returned a value of the response header was overwritten,
\* and the result still has the value the response came with
C25_Witness ==
    \E p \in CallIds :
        /\ Returned(p)
        /\ result[p].present
        /\ "Set-Cookie" \in DOMAIN httpResponse[p].Header
        /\ httpResponse[p].Header["Set-Cookie"] = <<"changed", "b=2">>
        /\ "Set-Cookie" \in DOMAIN result[p].Headers
        /\ result[p].Headers["Set-Cookie"] = <<"a=1", "b=2">>

----------------------------------------------------------------------------
(* properties of Do under cancellation *)

\* C26: a cancellation of the caller's context after the transport has
\* returned a response does not abort the call.  Do does not consult the
\* context after the transport has returned: whatever the state of the
\* context, validation runs, the read runs after a validation that passed,
\* the stream is closed, and what Do returns is what the response and its
\* stream give.  With a stream that the cancellation leaves alone Do
\* returns the result; a stream that the transport has tied to the context
\* fails in the read, and Do returns that failure as it returns any other
\* failure of the read.
C26_ContextNotConsulted ==
    \A p \in CallIds :
        (Returned(p) /\ httpResponse[p].present)
        => /\ [result |-> result[p], err |-> err[p]]
                 = AloneAfterTransport(
                      httpResponse[p], supplied[p],
                      validateResponse(httpResponse[p], supplied[p]))
           /\ httpResponse[p].closed = 1
           /\ (ctx[p] = "cancelled" /\ ResponseValid(p))
                 => IF httpResponse[p].failAt = -1
                    THEN /\ err[p] = NoError
                         /\ result[p].present
                         /\ httpResponse[p].read = Len(httpResponse[p].Body)
                    ELSE /\ err[p] = WithStack("read failed",
                                               "readResponse/io.ReadAll")
                         /\ ~result[p].present

\* the context was cancelled after a valid response had come, before its
\* stream was read, and Do returned the result with the whole body
C26_Witness ==
    \E p \in CallIds :
        /\ Returned(p)
        /\ variant = "client"
        /\ ctx[p] = "cancelled"
        /\ ResponseValid(p)
        /\ httpResponse[p].failAt = -1
        /\ httpResponse[p].closed = 1
        /\ err[p] = NoError
        /\ result[p].present
        /\ result[p].Body = <<7, 8>>

\* C27: every Do call that has returned has yielded exactly one of a result
\* and an error: a result with no error, or an error with no result, never
\* both and never neither, whatever the outcomes of the build, the hook,
\* the transport, the validation and the read.
C27_ResultXorError ==
    \A p \in CallIds :
        Returned(p)
        => \/ /\ result[p].present
              /\ err[p] = NoError
           \/ /\ result[p] = NoResult
              /\ err[p] # NoError

\* a call with a hook that returned a result with a body and no error
C27_Witness ==
    \E p \in CallIds :
        /\ Returned(p)
        /\ edit[p] = "setHeader"
        /\ httpResponse[p].present
        /\ result[p].present
        /\ result[p].Body # <<>>
        /\ err[p] = NoError

\* C28: without a hook, every request that reaches the transport with the
\* verb GET has no body, whatever Method the builder accepted (the empty
\* Method and other spellings of the verb included) and whatever body the
\* request declared.
C28_AsStated ==
    \A p \in CallIds :
        edit[p] = "nil"
        => \A i \in 1..Len(received[p]) :
              received[p][i].req.Method = "GET"
              => received[p][i].body = <<>>
====
